---------------------------- MODULE Spec2Model ----------------------------
(***************************************************************************)
(* A model of the syllabification engine of src/transcribe.py.            *)
(*                                                                         *)
(* Python strings are modelled as sequences of one-character strings, so  *)
(* that indexing, slicing, splitting and joining are computed as the code *)
(* computes them.  A function that reads or writes the global ledgers     *)
(* PHON_UNK / TEXT_UNK is modelled as an operator that takes the ledger   *)
(* and returns its value together with the new ledger.  An uncaught       *)
(* IndexError is modelled as the outcome "raised".                        *)
(***************************************************************************)
EXTENDS Integers, Sequences, FiniteSets, TLC

VARIABLES
    PHON_UNK,        \* transcribe.py:19  unknown phonetic characters
    TEXT_UNK,        \* transcribe.py:18  unknown text characters
    pc,              \* position of the running call
    args,            \* arguments (chars, cv_form) of the running syllabify call
    frame,           \* locals of determine_syllable_components
    subs,            \* sub representations still to process (line 272)
    phon_syllables,  \* line 269 / 274
    cv_syllables,    \* line 269 / 275
    multi,           \* TRUE inside the branch of line 268
    ret,             \* what the last call returned (or that it raised)
    line,            \* the line process_line produced last
    seen_phon,       \* history: unknown phonetic characters looked up so far
    seen_text        \* history: unknown text characters looked up so far

vars == <<PHON_UNK, TEXT_UNK, pc, args, frame, subs, phon_syllables,
          cv_syllables, multi, ret, line, seen_phon, seen_text>>

-----------------------------------------------------------------------------
(* Bounds of the model *)

MaxLen == 4        \* longest string given to determine_syllable_components
MaxCallLen == 3    \* longest string without ';' given to syllabify
MaxAlts == 3       \* most alternates joined by ';' in one phonetic field
MaxWordLen == 2    \* longest written word of a line
MaxPhonLen == 3    \* longest phonetic field of a line
MaxComponents == 4 \* longest constituent sequence given to concat_syllable_components
MaxCluster == 3    \* longest run of consonants between the two vowels of a cluster word

-----------------------------------------------------------------------------
(* Constants of transcribe.py *)

ONSET == "onset"
NUCLEUS == "nucleus"
CODA == "coda"
SYLLABLE_SEPARATOR == "-"
PHON_SEPARATOR == ";"

(* The classification tables.  They are loaded from letters_phon.csv and   *)
(* letters_text.csv; the model fixes one small table of each shape.  Each  *)
(* entry is one (category, key, letters) of the dictionary, in iteration   *)
(* order.                                                                  *)
PHON_DICT ==
    << [cv |-> "C", rank |-> 0, class |-> "plosive", letters |-> {"p"}],
       [cv |-> "C", rank |-> 2, class |-> "liquid",  letters |-> {"l"}],
       [cv |-> "V", rank |-> 4, class |-> "vowel",   letters |-> {"a"}] >>

TEXT_DICT ==
    << [cv |-> "C", letters |-> {"b"}],
       [cv |-> "V", letters |-> {"o"}] >>

(* Characters the inputs are drawn from: the known ones and one unknown to *)
(* each table.  The separator of alternates is added where a phonetic      *)
(* field may hold alternates.  The syllable separator '-' is a character   *)
(* of the output only: no phonetic string of the inputs holds it.          *)
PhonChars == {"p", "l", "a", "x"}
TextChars == {"b", "o", "'"}

-----------------------------------------------------------------------------
(* String helpers (Python semantics) *)

Abs(n) == IF n < 0 THEN -n ELSE n

(* s[i:] with a 0-based index *)
SliceFrom(s, i) == SubSeq(s, i + 1, Len(s))

(* Sequences over S of length at most n *)
SeqsUpTo(S, n) == UNION {[1..k -> S] : k \in 0..n}

RECURSIVE Flatten(_)
Flatten(ss) == IF ss = <<>> THEN <<>> ELSE Head(ss) \o Flatten(Tail(ss))

(* sep.join(parts) *)
RECURSIVE Join(_, _)
Join(parts, sep) ==
    IF parts = <<>> THEN <<>>
    ELSE IF Len(parts) = 1 THEN parts[1]
    ELSE parts[1] \o <<sep>> \o Join(Tail(parts), sep)

(* s.split(sep): always at least one part, empty parts kept *)
RECURSIVE Split(_, _)
Split(s, sep) ==
    IF \A i \in 1..Len(s) : s[i] # sep THEN <<s>>
    ELSE LET k == CHOOSE i \in 1..Len(s) :
                     s[i] = sep /\ \A j \in 1..(i - 1) : s[j] # sep
         IN <<SubSeq(s, 1, k - 1)>> \o Split(SubSeq(s, k + 1, Len(s)), sep)

Range(s) == {s[i] : i \in 1..Len(s)}

-----------------------------------------------------------------------------
(* Classification service: transcribe.py lines 79-134 *)

PhonEntries(char) == {i \in 1..Len(PHON_DICT) : char \in PHON_DICT[i].letters}
TextEntries(char) == {i \in 1..Len(TEXT_DICT) : char \in TEXT_DICT[i].letters}
First(S) == CHOOSE i \in S : \A j \in S : i <= j

(* Mutant: an unknown character is returned but not recorded *)
phon_to_cv_forgets(char, unk) ==
    IF PhonEntries(char) # {}
    THEN [val |-> PHON_DICT[First(PhonEntries(char))].cv, unk |-> unk]
    ELSE [val |-> char, unk |-> unk]

(* Mutant: a character already in the ledger is classified as a consonant *)
phon_to_cv_ledger(char, unk) ==
    IF PhonEntries(char) # {}
    THEN [val |-> PHON_DICT[First(PhonEntries(char))].cv, unk |-> unk]
    ELSE IF char \in unk THEN [val |-> "C", unk |-> unk]
    ELSE [val |-> char, unk |-> unk \cup {char}]

text_to_cv(char, unk) ==
    IF TextEntries(char) # {}
    THEN [val |-> TEXT_DICT[First(TextEntries(char))].cv, unk |-> unk]
    ELSE [val |-> char, unk |-> unk \cup {char}]

phon_to_cv(char, unk) ==
    IF PhonEntries(char) # {}
    THEN [val |-> PHON_DICT[First(PhonEntries(char))].cv, unk |-> unk]
    ELSE [val |-> char, unk |-> unk \cup {char}]

phon_to_rank(char, unk) ==
    IF PhonEntries(char) # {}
    THEN [val |-> PHON_DICT[First(PhonEntries(char))].rank, unk |-> unk]
    ELSE [val |-> -1, unk |-> unk \cup {char}]

(* "".join(f(char) for char in s): the lookups run left to right *)
RECURSIVE phon_cv_of(_, _)
phon_cv_of(s, unk) ==
    IF s = <<>> THEN [val |-> <<>>, unk |-> unk]
    ELSE LET h == phon_to_cv(Head(s), unk)
             t == phon_cv_of(Tail(s), h.unk)
         IN [val |-> <<h.val>> \o t.val, unk |-> t.unk]

RECURSIVE text_cv_of(_, _)
text_cv_of(s, unk) ==
    IF s = <<>> THEN [val |-> <<>>, unk |-> unk]
    ELSE LET h == text_to_cv(Head(s), unk)
             t == text_cv_of(Tail(s), h.unk)
         IN [val |-> <<h.val>> \o t.val, unk |-> t.unk]

-----------------------------------------------------------------------------
(* Onset legality: transcribe.py lines 137-141.  all() stops at the first  *)
(* pair that fails, so later characters are not looked up.                 *)

(* Mutant: the threshold of the rule is one too low *)
RECURSIVE onset_pairs_weak(_, _, _)
onset_pairs_weak(chars, i, unk) ==
    IF i > Len(chars) - 1 THEN [val |-> TRUE, unk |-> unk]
    ELSE LET a == phon_to_rank(chars[i], unk)
             b == phon_to_rank(chars[i + 1], a.unk)
         IN IF Abs(a.val - b.val) > 0
            THEN onset_pairs_weak(chars, i + 1, b.unk)
            ELSE [val |-> FALSE, unk |-> b.unk]

RECURSIVE onset_pairs(_, _, _)
onset_pairs(chars, i, unk) ==
    IF i > Len(chars) - 1 THEN [val |-> TRUE, unk |-> unk]
    ELSE LET a == phon_to_rank(chars[i], unk)
             b == phon_to_rank(chars[i + 1], a.unk)
         IN IF Abs(a.val - b.val) > 1
            THEN onset_pairs(chars, i + 1, b.unk)
            ELSE [val |-> FALSE, unk |-> b.unk]

(* Mutant: only the first pair of the onset is tested *)
is_onset_legal_first_pair(chars, unk) ==
    IF Len(chars) < 2 THEN [val |-> TRUE, unk |-> unk]
    ELSE LET a == phon_to_rank(chars[1], unk)
             b == phon_to_rank(chars[2], a.unk)
         IN [val |-> Abs(a.val - b.val) > 1, unk |-> b.unk]

is_onset_legal(chars, unk) == onset_pairs(chars, 1, unk)

-----------------------------------------------------------------------------
(* Syllable boundary segmenter: transcribe.py lines 144-208, one operator  *)
(* per loop iteration.  A frame holds the locals of the function; "at" is  *)
(* the position in it.  Indexing a string at its length raises IndexError. *)

(* lines 152-159 *)
segment_enter(chars, cv_form) ==
    [at |-> "first_onset", chars |-> chars, cv_form |-> cv_form,
     current_char |-> 0, length |-> Len(cv_form),
     onset |-> <<>>, onset_cv |-> <<>>, coda |-> <<>>, coda_cv |-> <<>>,
     components |-> <<>>]

raise_index_error(f) == [f EXCEPT !.at = "raised"]

(* One evaluation of the loop of lines 160-163 or 190-193 (the same text): *)
(* cv_form[current_char] is read before current_char < length is tested.   *)
(* "after" is where the function goes on when the loop ends.               *)
consonant_run_step(f, after) ==
    IF f.current_char >= Len(f.cv_form) THEN raise_index_error(f)
    ELSE IF f.cv_form[f.current_char + 1] # "V" /\ f.current_char < f.length
    THEN IF f.current_char >= Len(f.chars) THEN raise_index_error(f)
         ELSE [f EXCEPT !.onset = @ \o <<f.chars[f.current_char + 1]>>,
                        !.onset_cv = @ \o <<f.cv_form[f.current_char + 1]>>,
                        !.current_char = @ + 1]
    ELSE after

(* lines 160-164 *)
first_onset_step(f) ==
    consonant_run_step(f,
        [f EXCEPT !.components = Append(@, <<ONSET, f.onset, f.onset_cv>>),
                  !.at = "outer"])

(* lines 167-189: one nucleus, then the end of the word, the final coda or *)
(* the start of a cluster                                                  *)
outer_step(f) ==
    IF ~(f.current_char < f.length) THEN [f EXCEPT !.at = "done"]
    ELSE IF f.current_char >= Len(f.chars) THEN raise_index_error(f)
    ELSE LET next == f.current_char + 1
             withNucleus == Append(f.components,
                                   <<NUCLEUS, <<f.chars[next]>>, <<f.cv_form[next]>>>>)
         IN IF next >= f.length
            THEN [f EXCEPT !.current_char = next, !.components = withNucleus,
                           !.at = "done"]
            ELSE IF "V" \notin Range(SliceFrom(f.cv_form, next))
            THEN [f EXCEPT !.current_char = next,
                           !.coda = SliceFrom(f.chars, next),
                           !.coda_cv = SliceFrom(f.cv_form, next),
                           !.components = Append(withNucleus,
                               <<CODA, SliceFrom(f.chars, next),
                                 SliceFrom(f.cv_form, next)>>),
                           !.at = "done"]
            ELSE [f EXCEPT !.current_char = next, !.components = withNucleus,
                           !.onset = <<>>, !.onset_cv = <<>>,
                           !.coda = <<>>, !.coda_cv = <<>>,
                           !.at = "collect"]

(* lines 190-193 *)
collect_step(f) == consonant_run_step(f, [f EXCEPT !.at = "transfer"])

(* Mutant: the transferred character is removed from the onset and never  *)
(* added to the coda                                                       *)
transfer_step_drop(f, unk) ==
    LET legal == is_onset_legal(f.onset, unk)
    IN IF ~legal.val /\ Len(f.onset) > 0
       THEN [f |-> [f EXCEPT !.onset = Tail(@), !.onset_cv = Tail(@)],
             unk |-> legal.unk]
       ELSE [f |-> [f EXCEPT !.components =
                                 @ \o << <<CODA, f.coda, f.coda_cv>>,
                                         <<ONSET, f.onset, f.onset_cv>> >>,
                             !.at = "outer"],
             unk |-> legal.unk]

(* Mutant: the onset of a split is appended before its coda *)
transfer_step_swapped(f, unk) ==
    LET legal == is_onset_legal(f.onset, unk)
    IN IF ~legal.val /\ Len(f.onset) > 0
       THEN [f |-> [f EXCEPT !.coda = @ \o <<Head(f.onset)>>,
                             !.coda_cv = @ \o <<Head(f.onset_cv)>>,
                             !.onset = Tail(@),
                             !.onset_cv = Tail(@)],
             unk |-> legal.unk]
       ELSE [f |-> [f EXCEPT !.components =
                                 @ \o << <<ONSET, f.onset, f.onset_cv>>,
                                         <<CODA, f.coda, f.coda_cv>> >>,
                             !.at = "outer"],
             unk |-> legal.unk]

(* lines 196-206: one test of the transfer loop; is_onset_legal is called  *)
(* before the length is looked at                                          *)
transfer_step(f, unk) ==
    LET legal == is_onset_legal(f.onset, unk)
    IN IF ~legal.val /\ Len(f.onset) > 0
       THEN [f |-> [f EXCEPT !.coda = @ \o <<Head(f.onset)>>,
                             !.coda_cv = @ \o <<Head(f.onset_cv)>>,
                             !.onset = Tail(@),
                             !.onset_cv = Tail(@)],
             unk |-> legal.unk]
       ELSE [f |-> [f EXCEPT !.components =
                                 @ \o << <<CODA, f.coda, f.coda_cv>>,
                                         <<ONSET, f.onset, f.onset_cv>> >>,
                             !.at = "outer"],
             unk |-> legal.unk]

segment_step(f, unk) ==
    CASE f.at = "first_onset" -> [f |-> first_onset_step(f), unk |-> unk]
      [] f.at = "outer"       -> [f |-> outer_step(f), unk |-> unk]
      [] f.at = "collect"     -> [f |-> collect_step(f), unk |-> unk]
      [] f.at = "transfer"    -> transfer_step(f, unk)
      [] OTHER                -> [f |-> f, unk |-> unk]

RECURSIVE segment_run(_, _)
segment_run(f, unk) ==
    IF f.at \in {"done", "raised"} THEN [f |-> f, unk |-> unk]
    ELSE LET s == segment_step(f, unk) IN segment_run(s.f, s.unk)

(* The whole call: raised, or the components of line 208 *)
determine_syllable_components(chars, cv_form, unk) ==
    LET r == segment_run(segment_enter(chars, cv_form), unk)
    IN [raised |-> r.f.at = "raised", components |-> r.f.components,
        unk |-> r.unk]

-----------------------------------------------------------------------------
(* Syllable assembler: transcribe.py lines 211-248 *)

(* The generator of lines 215-236; "None" is the initial previous_component *)
(* Mutant: a constituent of length zero is not remembered as the previous  *)
(* component                                                               *)
RECURSIVE syllables_skip_empty(_, _, _, _, _, _)
syllables_skip_empty(components, i, syllable_phon, syllable_cv, previous_component, out) ==
    IF i > Len(components)
    THEN Append(out, <<syllable_phon, syllable_cv>>)
    ELSE LET c == components[i]
             new == c[1] \in {ONSET, NUCLEUS} /\ previous_component \in {CODA, NUCLEUS}
         IN syllables_skip_empty(components, i + 1,
                      (IF new THEN <<>> ELSE syllable_phon) \o c[2],
                      (IF new THEN <<>> ELSE syllable_cv) \o c[3],
                      IF c[2] = <<>> THEN previous_component ELSE c[1],
                      IF new THEN Append(out, <<syllable_phon, syllable_cv>>)
                      ELSE out)

(* Mutant: a new syllable also begins at a Nucleus that follows an Onset *)
RECURSIVE syllables_break_after_onset(_, _, _, _, _, _)
syllables_break_after_onset(components, i, syllable_phon, syllable_cv, previous_component, out) ==
    IF i > Len(components)
    THEN Append(out, <<syllable_phon, syllable_cv>>)
    ELSE LET c == components[i]
             new == c[1] \in {ONSET, NUCLEUS}
                    /\ previous_component \in {CODA, NUCLEUS, ONSET}
         IN syllables_break_after_onset(components, i + 1,
                      (IF new THEN <<>> ELSE syllable_phon) \o c[2],
                      (IF new THEN <<>> ELSE syllable_cv) \o c[3],
                      c[1],
                      IF new THEN Append(out, <<syllable_phon, syllable_cv>>)
                      ELSE out)

RECURSIVE syllables(_, _, _, _, _, _)
syllables(components, i, syllable_phon, syllable_cv, previous_component, out) ==
    IF i > Len(components)
    THEN Append(out, <<syllable_phon, syllable_cv>>)
    ELSE LET c == components[i]
             new == c[1] \in {ONSET, NUCLEUS} /\ previous_component \in {CODA, NUCLEUS}
         IN syllables(components, i + 1,
                      (IF new THEN <<>> ELSE syllable_phon) \o c[2],
                      (IF new THEN <<>> ELSE syllable_cv) \o c[3],
                      c[1],
                      IF new THEN Append(out, <<syllable_phon, syllable_cv>>)
                      ELSE out)

(* Mutant: the CV syllables are joined without the separator *)
concat_syllable_components_cv_joined(components) ==
    LET s == syllables(components, 1, <<>>, <<>>, "None", <<>>)
    IN << Join([i \in 1..Len(s) |-> s[i][1]], SYLLABLE_SEPARATOR),
          Flatten([i \in 1..Len(s) |-> s[i][2]]) >>

concat_syllable_components(components) ==
    LET s == syllables(components, 1, <<>>, <<>>, "None", <<>>)
    IN << Join([i \in 1..Len(s) |-> s[i][1]], SYLLABLE_SEPARATOR),
          Join([i \in 1..Len(s) |-> s[i][2]], SYLLABLE_SEPARATOR) >>

-----------------------------------------------------------------------------
(* Multi-variant coordinator: transcribe.py lines 252-290 *)

(* Mutant: only a missing cv_form is recomputed, not one of a wrong length *)
effective_cv_no_length_test(chars, cv_form, unk) ==
    IF cv_form = <<>>
    THEN phon_cv_of(chars, unk)
    ELSE [val |-> cv_form, unk |-> unk]

(* lines 281-282 *)
effective_cv(chars, cv_form, unk) ==
    IF cv_form = <<>> \/ Len(cv_form) # Len(chars)
    THEN phon_cv_of(chars, unk)
    ELSE [val |-> cv_form, unk |-> unk]

RECURSIVE syllabify(_, _, _)
RECURSIVE syllabify_each(_, _, _, _)

(* Mutant: the results of the sub representations are collected in        *)
(* reverse order                                                           *)
syllabify_each_reversed(parts, phons, cvs, unk) ==
    IF parts = <<>>
    THEN [raised |-> FALSE, phons |-> phons, cvs |-> cvs, unk |-> unk]
    ELSE LET r == syllabify(Head(parts), <<>>, unk)
         IN IF r.raised
            THEN [raised |-> TRUE, phons |-> phons, cvs |-> cvs, unk |-> r.unk]
            ELSE syllabify_each(Tail(parts), <<r.val[1]>> \o phons,
                                <<r.val[2]>> \o cvs, r.unk)

(* the loop of lines 272-275; an exception in one call leaves the loop *)
syllabify_each(parts, phons, cvs, unk) ==
    IF parts = <<>>
    THEN [raised |-> FALSE, phons |-> phons, cvs |-> cvs, unk |-> unk]
    ELSE LET r == syllabify(Head(parts), <<>>, unk)
         IN IF r.raised
            THEN [raised |-> TRUE, phons |-> phons, cvs |-> cvs, unk |-> r.unk]
            ELSE syllabify_each(Tail(parts), Append(phons, r.val[1]),
                                Append(cvs, r.val[2]), r.unk)

syllabify(chars, cv_form, unk) ==
    IF PHON_SEPARATOR \in Range(chars)
    THEN LET e == syllabify_each(Split(chars, PHON_SEPARATOR), <<>>, <<>>, unk)
         IN IF e.raised
            THEN [raised |-> TRUE, val |-> <<>>, unk |-> e.unk]
            ELSE [raised |-> FALSE,
                  val |-> <<Join(e.phons, PHON_SEPARATOR),
                            Join(e.cvs, PHON_SEPARATOR)>>,
                  unk |-> e.unk]
    ELSE LET cv == effective_cv(chars, cv_form, unk)
             d == determine_syllable_components(chars, cv.val, cv.unk)
         IN IF d.raised
            THEN [raised |-> TRUE, val |-> <<>>, unk |-> d.unk]
            ELSE [raised |-> FALSE,
                  val |-> concat_syllable_components(d.components),
                  unk |-> d.unk]

-----------------------------------------------------------------------------
(* Inputs *)

(* Phonetic strings without the separator of alternates *)
Words == SeqsUpTo(PhonChars, MaxLen)
CallWords == SeqsUpTo(PhonChars, MaxCallLen)

(* Words of two vowels around a run of consonants, known and unknown *)
ClusterWords ==
    { <<"a">> \o run \o <<"a">> :
        run \in SeqsUpTo(PhonChars \ {"a"}, MaxCluster) }

(* CV strings a caller may pass as cv_form; <<>> is the default "" *)
Hints == SeqsUpTo({"C", "V"}, MaxCallLen)

(* cv_form is not read when chars holds alternates: a few of each length *)
AltHints == SeqsUpTo({"C", "V"}, 2)

(* Alternates that are joined with ';' into one phonetic field *)
AltSamples ==
    { <<"a", "p", "a">>, <<"p", "a">>, <<"a", "l">>, <<"x", "a">>, <<"p">>, <<>> }

Alternates ==
    { Join(alts, PHON_SEPARATOR) :
        alts \in UNION {[1..k -> AltSamples] : k \in 2..MaxAlts} }

(* Constituent sequences a caller may pass to the assembler: any kinds in  *)
(* any order, with spellings of zero, one or two characters                *)
Constituents ==
    { <<kind, sp[1], sp[2]>> :
        kind \in {ONSET, NUCLEUS, CODA},
        sp \in { << <<>>, <<>> >>, << <<"a">>, <<"V">> >>,
                 << <<"p", "l">>, <<"C", "C">> >> } }

ComponentLists == SeqsUpTo(Constituents, MaxComponents)

(* CV strings of the length of chars: any over {C, V}, and the one the     *)
(* classification of chars gives                                           *)
CvFormsOf(chars) ==
    [1..Len(chars) -> {"C", "V"}] \cup {phon_cv_of(chars, {}).val}

-----------------------------------------------------------------------------
(* The state machine of library calls: each call is one step *)

NoFrame == [segment_enter(<<>>, <<>>) EXCEPT !.at = "none"]
NoRet == [raised |-> FALSE, val |-> <<>>]

Init ==
    /\ PHON_UNK = {}
    /\ TEXT_UNK = {}
    /\ pc = "idle"
    /\ args = <<>>
    /\ frame = NoFrame
    /\ subs = <<>>
    /\ phon_syllables = <<>>
    /\ cv_syllables = <<>>
    /\ multi = FALSE
    /\ ret = NoRet
    /\ line = <<>>
    /\ seen_phon = {}
    /\ seen_text = {}

(* determine_syllable_components(chars, cv_form), len(chars) = len(cv_form) *)
CallSegmenter ==
    /\ pc = "idle"
    /\ \E chars \in Words \cup ClusterWords : \E cv_form \in CvFormsOf(chars) :
         LET r == segment_run(segment_enter(chars, cv_form), PHON_UNK)
         IN /\ args' = <<chars, cv_form>>
            /\ frame' = r.f
            /\ PHON_UNK' = r.unk
            /\ ret' = [raised |-> r.f.at = "raised",
                       val |-> IF r.f.at = "raised" THEN <<>> ELSE r.f.components]
    /\ pc' = "segmented"
    /\ UNCHANGED <<TEXT_UNK, subs, phon_syllables, cv_syllables, multi, line,
                   seen_phon, seen_text>>

(* concat_syllable_components(components) on what the segmenter returned *)
CallAssembler ==
    /\ pc = "segmented"
    /\ ~ret.raised
    /\ ret' = [raised |-> FALSE, val |-> concat_syllable_components(ret.val)]
    /\ pc' = "assembled"
    /\ UNCHANGED <<PHON_UNK, TEXT_UNK, args, frame, subs, phon_syllables,
                   cv_syllables, multi, line, seen_phon, seen_text>>

(* concat_syllable_components(components) on a sequence of the caller *)
CallAssemblerOn ==
    /\ pc = "idle"
    /\ \E components \in ComponentLists :
         /\ args' = <<components>>
         /\ ret' = [raised |-> FALSE,
                    val |-> concat_syllable_components(components)]
    /\ pc' = "concatenated"
    /\ UNCHANGED <<PHON_UNK, TEXT_UNK, frame, subs, phon_syllables,
                   cv_syllables, multi, line, seen_phon, seen_text>>

(* syllabify(chars, cv_form) *)
CallSyllabify ==
    /\ pc = "idle"
    /\ \E chars \in CallWords \cup Alternates :
       \E cv_form \in IF chars \in CallWords THEN Hints ELSE AltHints :
         LET r == syllabify(chars, cv_form, PHON_UNK)
         IN /\ args' = <<chars, cv_form>>
            /\ PHON_UNK' = r.unk
            /\ ret' = [raised |-> r.raised, val |-> r.val]
    /\ pc' = "returned"
    /\ UNCHANGED <<TEXT_UNK, frame, subs, phon_syllables, cv_syllables, multi,
                   line, seen_phon, seen_text>>

(* The caller goes on to its next call; only the ledgers live on.  Nothing *)
(* in the repository catches the IndexError, so a call that raised is the  *)
(* end of the run.                                                         *)
NextCall ==
    /\ pc \in {"segmented", "assembled", "concatenated", "returned"}
    /\ ~ret.raised
    /\ pc' = "idle"
    /\ args' = <<>>
    /\ frame' = NoFrame
    /\ ret' = NoRet
    /\ UNCHANGED <<PHON_UNK, TEXT_UNK, subs, phon_syllables, cv_syllables,
                   multi, line, seen_phon, seen_text>>

Next ==
    \/ CallSegmenter \/ CallAssembler \/ CallAssemblerOn
    \/ CallSyllabify \/ NextCall

Spec == Init /\ [][Next]_vars

-----------------------------------------------------------------------------
(* Vocabulary of the properties *)

Kind(c) == c[1]
PhonOf(c) == c[2]
CvOf(c) == c[3]

(* The in-order concatenation of the spellings of a constituent sequence *)
PhonSpelling(components) ==
    Flatten([i \in 1..Len(components) |-> PhonOf(components[i])])
CvSpelling(components) ==
    Flatten([i \in 1..Len(components) |-> CvOf(components[i])])

IsSyllableSep(c) == c = SYLLABLE_SEPARATOR
NotSyllableSep(c) == c # SYLLABLE_SEPARATOR
WithoutSyllableSeps(s) == SelectSeq(s, NotSyllableSep)

(* The sonority rank of a character as the tables give it, -1 if unknown *)
SonorityRank(char) == phon_to_rank(char, {}).val

(* The sonority-distance rule of an onset *)
SonorityRule(chars) ==
    \A i \in 1..(Len(chars) - 1) :
        Abs(SonorityRank(chars[i]) - SonorityRank(chars[i + 1])) >= 2

SegmenterReturned == pc = "segmented" /\ ~ret.raised

-----------------------------------------------------------------------------
(* C1: when determine_syllable_components returns, the phonetic spellings  *)
(* of its constituents, concatenated in order, are exactly chars and the   *)
(* CV spellings are exactly cv_form; the two strings of                    *)
(* concat_syllable_components without their '-' are chars and cv_form.     *)
C1_LengthPreservation ==
    /\ SegmenterReturned =>
          /\ PhonSpelling(ret.val) = args[1]
          /\ CvSpelling(ret.val) = args[2]
    /\ pc = "assembled" =>
          /\ WithoutSyllableSeps(ret.val[1]) = args[1]
          /\ WithoutSyllableSeps(ret.val[2]) = args[2]

(* A word with a split cluster and a final coda has been assembled *)
C1_Witness ==
    /\ pc = "assembled"
    /\ args[1] = <<"a", "p", "p", "a">>
    /\ ret.val[1] = <<"a", "p", "-", "p", "a">>

(* C2, as stated: every Onset of two or more characters that the segmenter *)
(* returns, the word-initial one included, satisfies the sonority rule.    *)
C2_EveryOnsetLegal ==
    SegmenterReturned =>
        \A i \in 1..Len(ret.val) :
            (Kind(ret.val[i]) = ONSET /\ Len(PhonOf(ret.val[i])) >= 2)
                => SonorityRule(PhonOf(ret.val[i]))

(* C2, amended: every Onset of two or more characters other than the       *)
(* word-initial one (the first constituent) satisfies the sonority rule.   *)
C2_SplitOnsetLegal ==
    SegmenterReturned =>
        \A i \in 2..Len(ret.val) :
            (Kind(ret.val[i]) = ONSET /\ Len(PhonOf(ret.val[i])) >= 2)
                => SonorityRule(PhonOf(ret.val[i]))

(* A cluster between two vowels was tested and became an onset of two       *)
(* characters                                                              *)
C2_Witness ==
    /\ SegmenterReturned
    /\ \E i \in 2..Len(ret.val) :
          /\ Kind(ret.val[i]) = ONSET
          /\ Len(PhonOf(ret.val[i])) >= 2
          /\ Kind(ret.val[i - 1]) = CODA

(* C3: in the returned sequence no two consecutive constituents are both   *)
(* Coda and none are both Onset, and a coda and an onset are adjacent only *)
(* as a Coda followed by an Onset between two nuclei.                      *)
C3_Alternation ==
    SegmenterReturned =>
        \A i \in 1..(Len(ret.val) - 1) :
            LET a == Kind(ret.val[i])
                b == Kind(ret.val[i + 1])
            IN /\ ~(a = CODA /\ b = CODA)
               /\ ~(a = ONSET /\ b = ONSET)
               /\ (a \in {CODA, ONSET} /\ b \in {CODA, ONSET}) =>
                     /\ a = CODA /\ b = ONSET
                     /\ i > 1 /\ Kind(ret.val[i - 1]) = NUCLEUS
                     /\ i + 2 <= Len(ret.val) /\ Kind(ret.val[i + 2]) = NUCLEUS

(* Two adjacent vowels: an empty coda followed by an empty onset *)
C3_Witness ==
    /\ SegmenterReturned
    /\ \E i \in 1..(Len(ret.val) - 1) :
          /\ ret.val[i] = <<CODA, <<>>, <<>>>>
          /\ ret.val[i + 1] = <<ONSET, <<>>, <<>>>>

-----------------------------------------------------------------------------
(* Properties of syllabify, on the calls of Spec *)

SyllabifyReturned == pc = "returned" /\ ~ret.raised

(* What a call gave: whether it raised, and the pair it returned *)
Outcome(r) == [raised |-> r.raised, val |-> r.val]

(* The ledgers a call can start from *)
Ledgers == SUBSET ({c \in PhonChars : PhonEntries(c) = {}} \cup {PHON_SEPARATOR})

(* C4: syllabify of ';'-joined alternates, with any cv hint, returns the   *)
(* pair of the ';'-joined results of syllabify on each alternate alone, in *)
(* the same order; it raises exactly when syllabify raises on one of them. *)
C4_AlternateRoundTrip ==
    (pc = "returned" /\ PHON_SEPARATOR \in Range(args[1])) =>
        LET parts == Split(args[1], PHON_SEPARATOR)
            each == [i \in 1..Len(parts) |-> syllabify(parts[i], <<>>, {})]
        IN IF \E i \in 1..Len(parts) : each[i].raised
           THEN ret.raised
           ELSE /\ ~ret.raised
                /\ ret.val[1] = Join([i \in 1..Len(parts) |-> each[i].val[1]],
                                     PHON_SEPARATOR)
                /\ ret.val[2] = Join([i \in 1..Len(parts) |-> each[i].val[2]],
                                     PHON_SEPARATOR)

(* Three different alternates and a hint: the call returned *)
C4_Witness ==
    /\ SyllabifyReturned
    /\ args[1] = <<"a", "p", "a", ";", "x", "a", ";", "a", "l">>
    /\ args[2] = <<"C", "V">>
    /\ ret.val[1] = <<"a", "-", "p", "a", ";", "x", "a", ";", "a", "l">>

(* C5, as stated: the segmenter called on a non-empty string whose CV      *)
(* pattern has no 'V' returns, and its result is the one Onset that holds  *)
(* the whole string.                                                       *)
C5_NoNucleusReturns ==
    (pc = "segmented" /\ args[1] # <<>> /\ "V" \notin Range(args[2])) =>
        /\ ~ret.raised
        /\ ret.val = << <<ONSET, args[1], args[2]>> >>

(* C7: the two strings syllabify returns have the same length and carry    *)
(* '-' at the same offsets and ';' at the same offsets.                    *)
C7_ParallelSeparators ==
    SyllabifyReturned =>
        /\ Len(ret.val[1]) = Len(ret.val[2])
        /\ \A i \in 1..Len(ret.val[1]) :
              /\ ret.val[1][i] = SYLLABLE_SEPARATOR <=> ret.val[2][i] = SYLLABLE_SEPARATOR
              /\ ret.val[1][i] = PHON_SEPARATOR <=> ret.val[2][i] = PHON_SEPARATOR

(* A result with a syllable break and an alternate break *)
C7_Witness ==
    /\ SyllabifyReturned
    /\ SYLLABLE_SEPARATOR \in Range(ret.val[2])
    /\ PHON_SEPARATOR \in Range(ret.val[2])
    /\ args[2] # <<>>

(* C9: for chars without ';', a cv_form that is empty or of another length *)
(* gives the outcome of syllabify(chars) with no cv_form; a cv_form of the *)
(* length of chars gives the outcome of the segmenter and the assembler on *)
(* (chars, cv_form) itself; the CV string the segmenter is entered with    *)
(* has the length of chars.                                                *)
C9_HintRecovery ==
    (pc = "returned" /\ PHON_SEPARATOR \notin Range(args[1])) =>
        /\ (args[2] = <<>> \/ Len(args[2]) # Len(args[1])) =>
              Outcome(ret) = Outcome(syllabify(args[1], <<>>, {}))
        /\ (args[2] # <<>> /\ Len(args[2]) = Len(args[1])) =>
              LET d == determine_syllable_components(args[1], args[2], {})
              IN /\ ret.raised = d.raised
                 /\ ~d.raised => ret.val = concat_syllable_components(d.components)
        /\ Len(effective_cv(args[1], args[2], PHON_UNK).val) = Len(args[1])

(* A hint of the wrong length that differs from the computed CV string *)
C9_Witness ==
    /\ SyllabifyReturned
    /\ args[1] = <<"a", "p", "a">>
    /\ args[2] = <<"C", "C">>
    /\ ret.val[2] = <<"V", "-", "C", "V">>

(* C10: the outcome of syllabify(chars, cv_form) is the same from every    *)
(* content of the ledger.                                                  *)
C10_LedgerIndependence ==
    pc = "returned" =>
        \A unk \in Ledgers :
            Outcome(syllabify(args[1], args[2], unk)) = Outcome(ret)

(* A call on a word with an unknown character, begun with that character   *)
(* already in the ledger, or with the ledger still empty                   *)
C10_Witness ==
    /\ SyllabifyReturned
    /\ "x" \in Range(args[1])
    /\ "-" \in Range(ret.val[1])

-----------------------------------------------------------------------------
(* Runs of consonants between two vowels *)

(* The 0-based positions of the 'V' of a CV string, ascending *)
VowelPositions(cv_form) ==
    LET P == {j \in 1..Len(cv_form) : cv_form[j] = "V"}
        nth[n \in 1..Cardinality(P)] ==
            CHOOSE j \in P : Cardinality({k \in P : k < j}) = n - 1
    IN [n \in 1..Cardinality(P) |-> nth[n]]

(* The characters between the n-th vowel and the next one *)
RunAfter(chars, cv_form, n) ==
    LET v == VowelPositions(cv_form)
    IN SubSeq(chars, v[n] + 1, v[n + 1] - 1)

(* The longest suffix of a run that satisfies the sonority-distance rule *)
LongestLegalSuffix(run) ==
    LET k == CHOOSE k \in 0..Len(run) :
                 /\ SonorityRule(SliceFrom(run, k))
                 /\ \A j \in 0..(k - 1) : ~SonorityRule(SliceFrom(run, j))
    IN SliceFrom(run, k)

(* C11: for the run of consonants between each vowel and the next one the  *)
(* segmenter returns, right after the nucleus of the first vowel, a Coda   *)
(* and an Onset whose spellings together are the run, and the Onset is the *)
(* longest suffix of the run that is a legal onset; so the Onset is empty  *)
(* only when the run is, and a run of one consonant is the Onset after an  *)
(* empty Coda.                                                             *)
C11_MaximalOnset ==
    SegmenterReturned =>
        \A n \in 1..(Len(VowelPositions(args[2])) - 1) :
            LET run == RunAfter(args[1], args[2], n)
                run_cv == RunAfter(args[2], args[2], n)
                coda == ret.val[3 * n]
                onset == ret.val[3 * n + 1]
            IN /\ Kind(coda) = CODA /\ Kind(onset) = ONSET
               /\ PhonOf(coda) \o PhonOf(onset) = run
               /\ CvOf(coda) \o CvOf(onset) = run_cv
               /\ PhonOf(onset) = LongestLegalSuffix(run)
               /\ PhonOf(onset) = <<>> => run = <<>>
               /\ Len(run) = 1 => PhonOf(coda) = <<>>

(* A run of three consonants of which only the last two are legal together *)
C11_Witness ==
    /\ SegmenterReturned
    /\ args[1] = <<"a", "p", "p", "l", "a">>
    /\ args[2] = <<"V", "C", "C", "C", "V">>
    /\ ret.val[3] = <<CODA, <<"p">>, <<"C">>>>
    /\ ret.val[4] = <<ONSET, <<"p", "l">>, <<"C", "C">>>>

-----------------------------------------------------------------------------
(* Syllable boundaries of a constituent sequence *)

(* The positions of the constituents that begin a new syllable: an Onset   *)
(* or a Nucleus right after a Coda or a Nucleus                            *)
Boundaries(components) ==
    { i \in 2..Len(components) :
        /\ Kind(components[i]) \in {ONSET, NUCLEUS}
        /\ Kind(components[i - 1]) \in {CODA, NUCLEUS} }

(* The position of the first constituent of the k-th syllable *)
SyllableStart(components, k) ==
    LET S == {1} \cup Boundaries(components)
    IN CHOOSE i \in S : Cardinality({j \in S : j < i}) = k - 1

(* The constituents of the k-th of n syllables *)
SyllableOf(components, k, n) ==
    SubSeq(components, SyllableStart(components, k),
           IF k = n THEN Len(components)
           ELSE SyllableStart(components, k + 1) - 1)

(* C12: the assembler begins a new syllable at each Onset or Nucleus that  *)
(* follows a Coda or a Nucleus and nowhere else: its two strings are the   *)
(* '-'-joined spellings of 1 + (number of such positions) syllables, each  *)
(* the in-order spelling of its constituents, whatever their lengths.      *)
C12_SyllableBoundaries ==
    pc = "concatenated" =>
        LET components == args[1]
            n == 1 + Cardinality(Boundaries(components))
        IN /\ ret.val[1] = Join([k \in 1..n |->
                                   PhonSpelling(SyllableOf(components, k, n))],
                                SYLLABLE_SEPARATOR)
           /\ ret.val[2] = Join([k \in 1..n |->
                                   CvSpelling(SyllableOf(components, k, n))],
                                SYLLABLE_SEPARATOR)
           /\ Len(Split(ret.val[1], SYLLABLE_SEPARATOR)) = n
           /\ Len(Split(ret.val[2], SYLLABLE_SEPARATOR)) = n

(* A Coda of length zero between a Nucleus and an Onset: the Onset begins  *)
(* the second syllable                                                     *)
C12_Witness ==
    /\ pc = "concatenated"
    /\ args[1] = << <<NUCLEUS, <<"a">>, <<"V">>>>, <<CODA, <<>>, <<>>>>,
                    <<ONSET, <<"p", "l">>, <<"C", "C">>>>,
                    <<CODA, <<"a">>, <<"V">>>> >>
    /\ ret.val = << <<"a", "-", "p", "l", "a">>, <<"V", "-", "C", "C", "V">> >>

-----------------------------------------------------------------------------
(* Syllables of the assembled output *)

IsV(c) == c = "V"

(* The number of 'V' in a CV string *)
CountV(cv_form) == Len(SelectSeq(cv_form, IsV))

(* C13: on a word whose CV string holds a 'V' the segmenter returns, and    *)
(* the assembled output has as many syllables as the CV string has 'V',    *)
(* each with exactly one 'V' in its CV spelling and none empty: no '-' at  *)
(* either end, no two '-' in a row, and a '-' between two adjacent 'V'.    *)
C13_OneNucleusPerSyllable ==
    /\ (pc = "segmented" /\ "V" \in Range(args[2])) => ~ret.raised
    /\ (pc = "assembled" /\ "V" \in Range(args[2])) =>
          LET phon == ret.val[1]
              cv == ret.val[2]
              phon_syll == Split(phon, SYLLABLE_SEPARATOR)
              cv_syll == Split(cv, SYLLABLE_SEPARATOR)
          IN /\ Len(cv_syll) = CountV(args[2])
             /\ Len(phon_syll) = CountV(args[2])
             /\ \A k \in 1..Len(cv_syll) :
                   /\ CountV(cv_syll[k]) = 1
                   /\ phon_syll[k] # <<>>
                   /\ Len(phon_syll[k]) = Len(cv_syll[k])
             /\ \A out \in {phon, cv} :
                   /\ Head(out) # SYLLABLE_SEPARATOR
                   /\ out[Len(out)] # SYLLABLE_SEPARATOR
                   /\ \A i \in 1..(Len(out) - 1) :
                         ~(out[i] = SYLLABLE_SEPARATOR
                           /\ out[i + 1] = SYLLABLE_SEPARATOR)
             /\ \A i \in 1..(Len(cv) - 1) : ~(cv[i] = "V" /\ cv[i + 1] = "V")

(* A word that begins with two vowels and ends in a cluster of consonants *)
C13_Witness ==
    /\ pc = "assembled"
    /\ args = << <<"a", "a", "p", "l">>, <<"V", "V", "C", "C">> >>
    /\ ret.val = << <<"a", "-", "a", "p", "l">>, <<"V", "-", "V", "C", "C">> >>

-----------------------------------------------------------------------------
(* The state machine of one syllabify call after another, one step per    *)
(* loop iteration: lines 267-290 with the segmenter of lines 144-208       *)

StepChars == {"l", "x", "a", PHON_SEPARATOR}
StepWords == SeqsUpTo(StepChars, MaxLen)

(* syllabify is entered: line 268 and, without ';', lines 281-285 *)
StepCall ==
    /\ pc = "idle"
    /\ \E chars \in StepWords :
       \E cv_form \in IF PHON_SEPARATOR \in Range(chars) THEN AltHints ELSE Hints :
         IF PHON_SEPARATOR \in Range(chars)
         THEN /\ multi' = TRUE
              /\ subs' = Split(chars, PHON_SEPARATOR)
              /\ args' = <<chars, cv_form>>
              /\ pc' = "for"
              /\ UNCHANGED <<PHON_UNK, frame>>
         ELSE LET cv == effective_cv(chars, cv_form, PHON_UNK)
              IN /\ multi' = FALSE
                 /\ subs' = <<>>
                 /\ args' = <<chars, cv.val>>
                 /\ PHON_UNK' = cv.unk
                 /\ frame' = segment_enter(chars, cv.val)
                 /\ pc' = "segment"
    /\ phon_syllables' = <<>>
    /\ cv_syllables' = <<>>
    /\ UNCHANGED <<TEXT_UNK, ret, line, seen_phon, seen_text>>

(* line 273: syllabify(sub_representation), which has no ';' and no cv_form *)
StepSub ==
    /\ pc = "for"
    /\ subs # <<>>
    /\ LET cv == effective_cv(Head(subs), <<>>, PHON_UNK)
       IN /\ PHON_UNK' = cv.unk
          /\ frame' = segment_enter(Head(subs), cv.val)
    /\ subs' = Tail(subs)
    /\ pc' = "segment"
    /\ UNCHANGED <<TEXT_UNK, args, phon_syllables, cv_syllables, multi, ret,
                   line, seen_phon, seen_text>>

(* line 278 *)
StepJoin ==
    /\ pc = "for"
    /\ subs = <<>>
    /\ ret' = [raised |-> FALSE,
               val |-> <<Join(phon_syllables, PHON_SEPARATOR),
                         Join(cv_syllables, PHON_SEPARATOR)>>]
    /\ pc' = "returned"
    /\ UNCHANGED <<PHON_UNK, TEXT_UNK, args, frame, subs, phon_syllables,
                   cv_syllables, multi, line, seen_phon, seen_text>>

StepFirstOnset ==
    /\ pc = "segment"
    /\ frame.at = "first_onset"
    /\ frame' = first_onset_step(frame)
    /\ UNCHANGED <<PHON_UNK, TEXT_UNK, pc, args, subs, phon_syllables,
                   cv_syllables, multi, ret, line, seen_phon, seen_text>>

StepOuter ==
    /\ pc = "segment"
    /\ frame.at = "outer"
    /\ frame' = outer_step(frame)
    /\ UNCHANGED <<PHON_UNK, TEXT_UNK, pc, args, subs, phon_syllables,
                   cv_syllables, multi, ret, line, seen_phon, seen_text>>

StepCollect ==
    /\ pc = "segment"
    /\ frame.at = "collect"
    /\ frame' = collect_step(frame)
    /\ UNCHANGED <<PHON_UNK, TEXT_UNK, pc, args, subs, phon_syllables,
                   cv_syllables, multi, ret, line, seen_phon, seen_text>>

StepTransfer ==
    /\ pc = "segment"
    /\ frame.at = "transfer"
    /\ LET s == transfer_step(frame, PHON_UNK)
       IN /\ frame' = s.f
          /\ PHON_UNK' = s.unk
    /\ UNCHANGED <<TEXT_UNK, pc, args, subs, phon_syllables, cv_syllables,
                   multi, ret, line, seen_phon, seen_text>>

(* lines 288-290, and lines 274-275 when the call was made by the loop *)
StepAssemble ==
    /\ pc = "segment"
    /\ frame.at = "done"
    /\ LET v == concat_syllable_components(frame.components)
       IN IF multi
          THEN /\ phon_syllables' = Append(phon_syllables, v[1])
               /\ cv_syllables' = Append(cv_syllables, v[2])
               /\ pc' = "for"
               /\ UNCHANGED ret
          ELSE /\ ret' = [raised |-> FALSE, val |-> v]
               /\ pc' = "returned"
               /\ UNCHANGED <<phon_syllables, cv_syllables>>
    /\ frame' = NoFrame
    /\ UNCHANGED <<PHON_UNK, TEXT_UNK, args, subs, multi, line, seen_phon,
                   seen_text>>

(* The IndexError leaves the segmenter and every syllabify above it *)
StepRaise ==
    /\ pc = "segment"
    /\ frame.at = "raised"
    /\ ret' = [raised |-> TRUE, val |-> <<>>]
    /\ pc' = "raised"
    /\ UNCHANGED <<PHON_UNK, TEXT_UNK, args, frame, subs, phon_syllables,
                   cv_syllables, multi, line, seen_phon, seen_text>>

(* The caller goes on to its next call *)
StepNextCall ==
    /\ pc = "returned"
    /\ pc' = "idle"
    /\ args' = <<>>
    /\ frame' = NoFrame
    /\ subs' = <<>>
    /\ phon_syllables' = <<>>
    /\ cv_syllables' = <<>>
    /\ multi' = FALSE
    /\ ret' = NoRet
    /\ UNCHANGED <<PHON_UNK, TEXT_UNK, line, seen_phon, seen_text>>

NextSteps ==
    \/ StepCall \/ StepSub \/ StepJoin
    \/ StepFirstOnset \/ StepOuter \/ StepCollect \/ StepTransfer
    \/ StepAssemble \/ StepRaise \/ StepNextCall

SpecSteps == Init /\ [][NextSteps]_vars

(* The interpreter runs a started call on: no step waits forever *)
FairSteps == SpecSteps /\ WF_vars(NextSteps)

Running == pc \in {"for", "segment"}

(* The segmenter is at work on a word of at least one character that was   *)
(* given to syllabify without alternates                                   *)
WordRunning == pc = "segment" /\ ~multi /\ frame.chars # <<>>

(* C6, as stated: the processing of a single word terminates with          *)
(* syllabify returning: once the segmenter has begun on a word, the call   *)
(* eventually returns.                                                     *)
C6_EventuallyReturns == WordRunning ~> (pc = "returned")

(* Every started call comes to an end: it returns or raises *)
CallEnds == Running ~> (pc \in {"returned", "raised"})

-----------------------------------------------------------------------------
(* The script: transcribe.py lines 294-317 and 349-360 *)

(* process_line, lines 309-317: the elements of the list are evaluated in  *)
(* order, so both CV forms are computed before syllabify is called.        *)
(* The list itself, from the results of its three computations:            *)
line_fields(word, phone, word_cv, phone_cv, syll) ==
    [raised |-> syll.raised,
     line |-> IF syll.raised THEN <<>>
              ELSE <<word, word_cv.val, phone, phone_cv.val,
                     syll.val[1], syll.val[2]>>,
     text_unk |-> word_cv.unk,
     phon_unk |-> syll.unk]

(* line 316, after lines 313 and 315 *)
line_syllabified(word, phone, word_cv, phone_cv) ==
    line_fields(word, phone, word_cv, phone_cv,
                syllabify(phone, <<>>, phone_cv.unk))

process_line(word, phone, text_unk, phon_unk) ==
    line_syllabified(word, phone, text_cv_of(word, text_unk),
                     phon_cv_of(phone, phon_unk))

(* The fields of the lines load_data gives: non-empty strings *)
LineWords == SeqsUpTo(TextChars, MaxWordLen) \ {<<>>}
LinePhones == SeqsUpTo(PhonChars \cup {PHON_SEPARATOR}, MaxPhonLen) \ {<<>>}

UnknownText(s) == {c \in Range(s) : TextEntries(c) = {}}
UnknownPhon(s) == {c \in Range(s) : PhonEntries(c) = {}}

(* line 352: one line of the data is processed; an IndexError ends the run *)
ProcessLine ==
    /\ pc = "idle"
    /\ \E word \in LineWords : \E phone \in LinePhones :
         \E r \in {process_line(word, phone, TEXT_UNK, PHON_UNK)} :
            /\ TEXT_UNK' = r.text_unk
            /\ PHON_UNK' = r.phon_unk
            /\ line' = r.line
            /\ pc' = IF r.raised THEN "raised" ELSE "line_done"
            /\ seen_text' = seen_text \cup UnknownText(word)
            /\ seen_phon' = seen_phon \cup UnknownPhon(phone)
    /\ UNCHANGED <<args, frame, subs, phon_syllables, cv_syllables, multi, ret>>

(* line 352: the comprehension goes on to the next line *)
NextLine ==
    /\ pc = "line_done"
    /\ pc' = "idle"
    /\ line' = <<>>
    /\ UNCHANGED <<PHON_UNK, TEXT_UNK, args, frame, subs, phon_syllables,
                   cv_syllables, multi, ret, seen_phon, seen_text>>

(* lines 354-360: every line is processed; ';' is taken out of the         *)
(* phonetic ledger and the ledgers are printed                             *)
ReportUnknown ==
    /\ pc = "idle"
    /\ PHON_UNK' = PHON_UNK \ {PHON_SEPARATOR}
    /\ pc' = "reported"
    /\ UNCHANGED <<TEXT_UNK, args, frame, subs, phon_syllables, cv_syllables,
                   multi, ret, line, seen_phon, seen_text>>

NextMain == ProcessLine \/ NextLine \/ ReportUnknown

SpecMain == Init /\ [][NextMain]_vars

(* What a lookup of each character does to a ledger: an unknown character  *)
(* is returned itself (-1 for the rank) and inserted, a known one is       *)
(* classified and nothing is inserted                                      *)
LookupContract ==
    /\ \A c \in PhonChars \cup {PHON_SEPARATOR} :
          IF PhonEntries(c) = {}
          THEN /\ phon_to_cv(c, PHON_UNK) = [val |-> c, unk |-> PHON_UNK \cup {c}]
               /\ phon_to_rank(c, PHON_UNK) = [val |-> -1, unk |-> PHON_UNK \cup {c}]
          ELSE /\ phon_to_cv(c, PHON_UNK).val \in {"C", "V"}
               /\ phon_to_cv(c, PHON_UNK).unk = PHON_UNK
               /\ phon_to_rank(c, PHON_UNK).val >= 0
               /\ phon_to_rank(c, PHON_UNK).unk = PHON_UNK
    /\ \A c \in TextChars :
          IF TextEntries(c) = {}
          THEN text_to_cv(c, TEXT_UNK) = [val |-> c, unk |-> TEXT_UNK \cup {c}]
          ELSE /\ text_to_cv(c, TEXT_UNK).val \in {"C", "V"}
               /\ text_to_cv(c, TEXT_UNK).unk = TEXT_UNK

(* C8, as stated: at every point of a run each ledger holds exactly the    *)
(* unknown characters that were looked up; nothing is ever removed.        *)
C8_LedgerIsLookedUpUnknowns ==
    /\ LookupContract
    /\ TEXT_UNK = seen_text
    /\ PHON_UNK = seen_phon

(* C8, amended: the same while the lines are processed; once they all are, *)
(* the script removes ';' from the phonetic ledger, which then holds the   *)
(* unknown characters that were looked up other than ';'.                  *)
C8_LedgerUntilReport ==
    /\ LookupContract
    /\ TEXT_UNK = seen_text
    /\ pc # "reported" => PHON_UNK = seen_phon
    /\ pc = "reported" => PHON_UNK = seen_phon \ {PHON_SEPARATOR}

(* Lines with unknown characters of both alphabets and with alternates     *)
(* were processed and the ledgers reported                                 *)
C8_Witness ==
    /\ pc = "reported"
    /\ seen_phon = {"x", PHON_SEPARATOR}
    /\ PHON_UNK = {"x"}
    /\ TEXT_UNK = {"'"}

=============================================================================
